---- MODULE Spec2Model ----
(***************************************************************************)
(* Model of the DAC driver in src/src/dac.rs: the DacChannel and Dac       *)
(* handles, the control register CR with its per-channel EN / TEN / TSEL / *)
(* DMAEN fields, the data-holding and data-output registers, the           *)
(* reference-counted peripheral clock, and the DMA streaming write with    *)
(* its two unguarded read-modify-write sequences.                          *)
(***************************************************************************)
EXTENDS Integers, Sequences, FiniteSets, TLC

VARIABLES
    live,       \* the DacChannel values that exist (const N of each)
    dac,        \* TRUE while a Dac aggregate owns both channels
    refcount,   \* the peripheral's enable reference count (RccPeripheral)
    clock,      \* the peripheral's clock enable bit
    cr,         \* DAC control register: en, ten, tsel, dmaen per channel index
    dhr,        \* data-holding value per channel index (12 bit)
    dor,        \* data-output register per channel index (12 bit)
    pc,         \* position of each channel's write() future
    tmp,        \* the CR value a write() read-modify-write has read
    wr,         \* the arguments of each channel's write() call in progress
    xfer,       \* the DMA transfer of each channel
    last        \* the last driver call that returned (or started, for write)

vars == <<live, dac, refcount, clock, cr, dhr, dor, pc, tmp, wr, xfer, last>>

----------------------------------------------------------------------------
(* Bounds and input sets *)

\* longest sample buffer handed to write()
MaxLen == 2

\* const N: u8 of DacCh1 / DacCh2
Chan == {1, 2}

\* const IDX: usize = (N - 1) as usize
IDX(n) == n - 1

Idx == {IDX(n) : n \in Chan}

Other(n) == CHOOSE m \in Chan : m # n

\* pac::dac::vals::TrigSel: a timer-driven source (field value 0, the reset
\* value) and the software trigger
TriggerSel == {"TIM6_TRGO", "SOFTWARE"}

Formats == {"Bit8", "Bit12Left", "Bit12Right"}

\* the 8-bit and 16-bit containers the calls are exercised with; 4256 is
\* 4096 + 160, a 12-bit value out of range
Samples(fmt) == IF fmt = "Bit8" THEN {0, 10} ELSE {160, 4256}

\* enum Value
Value == UNION {[fmt : {f}, v : Samples(f)] : f \in Formats}

\* enum DualValue
DualValue == UNION {[fmt : {f}, v1 : Samples(f), v2 : Samples(f)] : f \in Formats}

\* the raw words of a DMA buffer, per format
Words(fmt) ==
    CASE fmt = "Bit8"       -> {10}
      [] fmt = "Bit12Left"  -> {2560}
      [] fmt = "Bit12Right" -> {160}

\* enum ValueArray: a borrowed buffer; 8-bit buffers of 1..MaxLen elements,
\* one-element buffers of the two 12-bit formats
ValueArray ==
    [fmt : {"Bit8"}, buf : UNION {[1..k -> Words("Bit8")] : k \in 1..MaxLen}]
        \cup UNION {[fmt : {f}, buf : [1..1 -> Words(f)]] : f \in Formats \ {"Bit8"}}

----------------------------------------------------------------------------
(* The register interface *)

CrReset ==
    [en    |-> [i \in Idx |-> FALSE],
     ten   |-> [i \in Idx |-> FALSE],
     tsel  |-> [i \in Idx |-> "TIM6_TRGO"],
     dmaen |-> [i \in Idx |-> FALSE]]

DataReset == [i \in Idx |-> 0]

set_en(reg, i, on) == [reg EXCEPT !.en[i] = on]

set_tsel(reg, i, source) == [reg EXCEPT !.tsel[i] = source]

set_ten(reg, i, on) == [reg EXCEPT !.ten[i] = on]

set_dmaen(reg, i, on) == [reg EXCEPT !.dmaen[i] = on]

\* set_dhr clamping a value that is out of range to the largest one
set_dhr_saturating(fmt, v) ==
    IF fmt = "Bit8" THEN (v % 256) * 16 ELSE IF v > 4095 THEN 4095 ELSE v

\* set_dhr on DHR8R / DHR12L / DHR12R: the field keeps the low bits of the
\* value; the 8-bit register feeds the high 8 of the 12 data bits
set_dhr(fmt, v) == IF fmt = "Bit8" THEN (v % 256) * 16 ELSE v % 4096

\* a raw bus write of one buffer element to the address of DHR8R / DHR12L /
\* DHR12R: the 12L register holds the data in bits 15..4
raw_write(reg, w) ==
    CASE reg = "DHR8R"  -> (w % 256) * 16
      [] reg = "DHR12L" -> (w \div 16) % 4096
      [] reg = "DHR12R" -> w % 4096

\* the data-output register after the holding register of index i is loaded
\* with h: copied at once when triggering is off, otherwise pending
Load(reg, out, i, h) == IF reg.ten[i] THEN out ELSE [out EXCEPT ![i] = h]

\* a software trigger pulse latching whatever trigger source is selected
SwTrigger_any_source(reg, hold, out, i) ==
    IF reg.ten[i] THEN [out EXCEPT ![i] = hold[i]] ELSE out

\* the data-output register after a software trigger pulse on index i
SwTrigger(reg, hold, out, i) ==
    IF reg.ten[i] /\ reg.tsel[i] = "SOFTWARE" THEN [out EXCEPT ![i] = hold[i]] ELSE out

\* the data-output register after a write of SWTRIGR that sets the bits of
\* the indices in `bits`
Swtrigr(reg, hold, out, bits) ==
    [i \in Idx |-> IF i \in bits THEN SwTrigger(reg, hold, out, i)[i] ELSE out[i]]

----------------------------------------------------------------------------
(* The peripheral lifecycle: state is the record [refcount, clock, cr, dhr, dor] *)

HW == [refcount |-> refcount, clock |-> clock, cr |-> cr, dhr |-> dhr, dor |-> dor]

enable_and_reset(h) ==
    IF h.refcount = 0
    THEN [refcount |-> 1, clock |-> TRUE, cr |-> CrReset, dhr |-> DataReset, dor |-> DataReset]
    ELSE [h EXCEPT !.refcount = @ + 1]

rcc_disable(h) ==
    IF h.refcount = 1
    THEN [h EXCEPT !.refcount = 0, !.clock = FALSE]
    ELSE [h EXCEPT !.refcount = @ - 1]

Commit(h) ==
    /\ refcount' = h.refcount
    /\ clock' = h.clock
    /\ cr' = h.cr
    /\ dhr' = h.dhr
    /\ dor' = h.dor

----------------------------------------------------------------------------
(* The DMA transfer interface *)

NoXfer ==
    [running |-> FALSE, buf |-> <<>>, dst |-> [reg |-> "none", idx |-> 0], circular |-> FALSE,
     half_transfer_ir |-> FALSE, complete_transfer_ir |-> FALSE, pos |-> 0]

NoCall == [data |-> [fmt |-> "none", buf |-> <<>>], circular |-> FALSE]

\* write() passing the default one-shot options whatever `circular` is
TransferOptions_one_shot(circular) ==
    [circular |-> FALSE, half_transfer_ir |-> FALSE, complete_transfer_ir |-> TRUE]

\* crate::dma::TransferOptions built by write()
TransferOptions(circular) ==
    [circular |-> circular, half_transfer_ir |-> FALSE, complete_transfer_ir |-> ~circular]

\* write() handing the 12-bit right-aligned register to every transfer
Destination_12r(n, data) == [reg |-> "DHR12R", idx |-> IDX(n)]

\* the register write() hands to the transfer as destination: dhr8r(IDX),
\* dhr12l(IDX) or dhr12r(IDX)
Destination(n, data) ==
    [reg |-> CASE data.fmt = "Bit8"       -> "DHR8R"
               [] data.fmt = "Bit12Left"  -> "DHR12L"
               [] data.fmt = "Bit12Right" -> "DHR12R",
     idx |-> IDX(n)]

\* crate::dma::Transfer::new_write
new_write(buf, dst, options) ==
    [running |-> TRUE, buf |-> buf, dst |-> dst, circular |-> options.circular,
     half_transfer_ir |-> options.half_transfer_ir,
     complete_transfer_ir |-> options.complete_transfer_ir, pos |-> 0]

\* the transfer's future is ready: the engine has stopped and the
\* transfer-complete interrupt has woken the task
Ready(x) == ~x.running /\ x.complete_transfer_ir /\ x.pos = Len(x.buf)

----------------------------------------------------------------------------

Idle == [n \in Chan |-> "idle"]

InRMW(n) == pc[n] \in {"en_mod", "dis_mod"}

\* the caller holds &mut to channel n: the handle exists, no write() future
\* borrows it, and inside a Dac the whole aggregate is borrowed at once
CanUse(n) ==
    /\ n \in live
    /\ pc[n] = "idle"
    /\ dac => pc[Other(n)] = "idle"

Call(op, n) == [op |-> op, ch |-> n]

Init ==
    /\ live = {}
    /\ dac = FALSE
    /\ refcount = 0
    /\ clock = FALSE
    /\ cr = CrReset
    /\ dhr = DataReset
    /\ dor = DataReset
    /\ pc = Idle
    /\ tmp = [n \in Chan |-> CrReset]
    /\ wr = [n \in Chan |-> NoCall]
    /\ xfer = [n \in Chan |-> NoXfer]
    /\ last = Call("none", 0)

----------------------------------------------------------------------------
(* The closures handed to cr().modify *)

\* set_enable writing the trigger-enable bit instead of the enable bit
set_enable_mod_ten(reg, n, on) == set_ten(reg, IDX(n), on)

set_enable_mod(reg, n, on) == set_en(reg, IDX(n), on)

\* set_trigger without the set_en(IDX, false)
set_trigger_mod_keeps_en(reg, n, source) == set_tsel(reg, IDX(n), source)

set_trigger_mod(reg, n, source) == set_tsel(set_en(reg, IDX(n), FALSE), IDX(n), source)

\* set_triggering disabling the channel as set_trigger does
set_triggering_mod_disables(reg, n, on) == set_ten(set_en(reg, IDX(n), FALSE), IDX(n), on)

set_triggering_mod(reg, n, on) == set_ten(reg, IDX(n), on)

\* the opening modify of write() setting the bits of both channels
write_enable_mod_all(reg, n) ==
    [reg EXCEPT !.en = [i \in Idx |-> TRUE], !.dmaen = [i \in Idx |-> TRUE]]

write_enable_mod(reg, n) == set_dmaen(set_en(reg, IDX(n), TRUE), IDX(n), TRUE)

\* the closing modify of write() clearing EN only
write_disable_mod_en_only(reg, n) == set_en(reg, IDX(n), FALSE)

write_disable_mod(reg, n) == set_dmaen(set_en(reg, IDX(n), FALSE), IDX(n), FALSE)

----------------------------------------------------------------------------
(* Construction and destruction *)

\* Dac::new enabling the peripheral once for both channels
Dac_new_enable_once(h) == enable_and_reset(h)

\* the two T::enable_and_reset() calls of Dac::new
Dac_new_enable(h) == enable_and_reset(enable_and_reset(h))

\* DacChannel::new
DacChannel_new(n) ==
    /\ live = {}
    /\ LET h == enable_and_reset(HW)
       IN  Commit([h EXCEPT !.cr = set_enable_mod(@, n, TRUE)])
    /\ live' = {n}
    /\ last' = Call("new", n)
    /\ UNCHANGED <<dac, pc, tmp, wr, xfer>>

\* Dac::new
Dac_new ==
    /\ live = {}
    /\ LET h == Dac_new_enable(HW)
       IN  Commit([h EXCEPT !.cr = set_enable_mod(set_enable_mod(@, 1, TRUE), 2, TRUE)])
    /\ live' = Chan
    /\ dac' = TRUE
    /\ last' = Call("Dac_new", 0)
    /\ UNCHANGED <<pc, tmp, wr, xfer>>

\* Dac::split
Dac_split ==
    /\ dac
    /\ pc = Idle
    /\ dac' = FALSE
    /\ last' = Call("split", 0)
    /\ UNCHANGED <<live, refcount, clock, cr, dhr, dor, pc, tmp, wr, xfer>>

\* the register and clock state after Drop for DacChannel
drop_hw(h, n) == rcc_disable(h)

\* Drop for DacChannel, of a channel owned on its own
drop(n) ==
    /\ ~dac
    /\ CanUse(n)
    /\ Commit(drop_hw(HW, n))
    /\ live' = live \ {n}
    /\ last' = Call("drop", n)
    /\ UNCHANGED <<dac, pc, tmp, wr, xfer>>

\* dropping a Dac drops its fields ch1 and ch2
Dac_drop ==
    /\ dac
    /\ pc = Idle
    /\ Commit(drop_hw(drop_hw(HW, 1), 2))
    /\ live' = {}
    /\ dac' = FALSE
    /\ last' = Call("Dac_drop", 0)
    /\ UNCHANGED <<pc, tmp, wr, xfer>>

----------------------------------------------------------------------------
(* Configuration: each read-modify-write runs inside critical_section::with *)

Configure(n, op, reg) ==
    /\ CanUse(n)
    /\ cr' = reg
    /\ last' = Call(op, n)
    /\ UNCHANGED <<live, dac, refcount, clock, dhr, dor, pc, tmp, wr, xfer>>

set_enable(n, on) == Configure(n, "set_enable", set_enable_mod(cr, n, on))

\* enable() inverting the enable bit
enable_toggle(n) == Configure(n, "enable", set_enable_mod(cr, n, ~cr.en[IDX(n)]))

enable(n) == Configure(n, "enable", set_enable_mod(cr, n, TRUE))

disable(n) == Configure(n, "disable", set_enable_mod(cr, n, FALSE))

set_trigger(n, source) == Configure(n, "set_trigger", set_trigger_mod(cr, n, source))

set_triggering(n, on) == Configure(n, "set_triggering", set_triggering_mod(cr, n, on))

----------------------------------------------------------------------------
(* Data path *)

\* DacChannel::read
read(n) == dor[IDX(n)]

\* set() writing every variant to the 12-bit right-aligned register
set_hold_12r(n, value) == set_dhr("Bit12Right", value.v)

\* the value DacChannel::set stores in the holding register
set_hold(n, value) == set_dhr(value.fmt, value.v)

\* DacChannel::set
set(n, value) ==
    /\ CanUse(n)
    /\ dhr' = [dhr EXCEPT ![IDX(n)] = set_hold(n, value)]
    /\ dor' = Load(cr, dor, IDX(n), set_hold(n, value))
    /\ last' = Call("set", n)
    /\ UNCHANGED <<live, dac, refcount, clock, cr, pc, tmp, wr, xfer>>

\* trigger() setting the software trigger bit of both channels
set_swtrig_all(n) == Idx

\* the bits the closure of trigger() sets in SWTRIGR
set_swtrig(n) == {IDX(n)}

\* DacChannel::trigger
trigger(n) ==
    /\ CanUse(n)
    /\ dor' = Swtrigr(cr, dhr, dor, set_swtrig(n))
    /\ last' = Call("trigger", n)
    /\ UNCHANGED <<live, dac, refcount, clock, cr, dhr, pc, tmp, wr, xfer>>

\* Dac::set writing channel 1's register only in its first bus write
dual_hold_torn(values) == [dhr EXCEPT ![0] = set_dhr(values.fmt, values.v1)]

\* the holding registers after the one write of Dac::set to DHR8RD / DHR12LD / DHR12RD
dual_hold(values) ==
    [i \in Idx |-> IF i = 0 THEN set_dhr(values.fmt, values.v1)
                            ELSE set_dhr(values.fmt, values.v2)]

\* Dac::set
Dac_set(values) ==
    /\ dac
    /\ pc = Idle
    /\ dhr' = dual_hold(values)
    /\ dor' = [i \in Idx |-> IF cr.ten[i] THEN dor[i] ELSE dual_hold(values)[i]]
    /\ last' = Call("Dac_set", 0)
    /\ UNCHANGED <<live, dac, refcount, clock, cr, pc, tmp, wr, xfer>>

\* a trigger event of a hardware source selected by TSEL
hw_trigger(n) ==
    /\ clock
    /\ cr.ten[IDX(n)]
    /\ cr.tsel[IDX(n)] # "SOFTWARE"
    /\ dor[IDX(n)] # dhr[IDX(n)]
    /\ dor' = [dor EXCEPT ![IDX(n)] = dhr[IDX(n)]]
    /\ UNCHANGED <<live, dac, refcount, clock, cr, dhr, pc, tmp, wr, xfer, last>>

----------------------------------------------------------------------------
(* DacChannel::write: the streaming write *)

\* the call starts: cr().modify reads CR (outside any critical section).  A
\* call that preempts the other channel's read-modify-write runs to its
\* await without being interrupted in turn.
write_start(n, data, circular) ==
    /\ CanUse(n)
    /\ wr' = [wr EXCEPT ![n] = [data |-> data, circular |-> circular]]
    /\ last' = Call("write", n)
    /\ IF InRMW(Other(n))
       THEN /\ cr' = write_enable_mod(cr, n)
            /\ xfer' = [xfer EXCEPT ![n] =
                   new_write(data.buf, Destination(n, data), TransferOptions(circular))]
            /\ pc' = [pc EXCEPT ![n] = "await"]
            /\ UNCHANGED tmp
       ELSE /\ tmp' = [tmp EXCEPT ![n] = cr]
            /\ pc' = [pc EXCEPT ![n] = "en_mod"]
            /\ UNCHANGED <<cr, xfer>>
    /\ UNCHANGED <<live, dac, refcount, clock, dhr, dor>>

\* cr().modify writes EN and DMAEN back; the transfer is created and awaited
write_enable(n) ==
    /\ pc[n] = "en_mod"
    /\ cr' = write_enable_mod(tmp[n], n)
    /\ xfer' = [xfer EXCEPT ![n] =
           new_write(wr[n].data.buf, Destination(n, wr[n].data), TransferOptions(wr[n].circular))]
    /\ pc' = [pc EXCEPT ![n] = "await"]
    /\ tmp' = [tmp EXCEPT ![n] = CrReset]
    /\ UNCHANGED <<live, dac, refcount, clock, dhr, dor, wr, last>>

\* the DMA engine moves one element of the buffer to the destination register
dma_step(n) ==
    /\ clock
    /\ xfer[n].running
    /\ LET x == xfer[n]
           h == raw_write(x.dst.reg, x.buf[x.pos + 1])
           end == x.pos + 1 = Len(x.buf)
       IN  /\ dhr' = [dhr EXCEPT ![x.dst.idx] = h]
           /\ dor' = Load(cr, dor, x.dst.idx, h)
           /\ xfer' = [xfer EXCEPT ![n] =
                  IF end /\ x.circular THEN [x EXCEPT !.pos = 0]
                  ELSE IF end THEN [x EXCEPT !.pos = @ + 1, !.running = FALSE]
                  ELSE [x EXCEPT !.pos = @ + 1]]
    /\ UNCHANGED <<live, dac, refcount, clock, cr, pc, tmp, wr, last>>

\* tx_f.await returns; cr().modify reads CR (outside any critical section)
write_resume(n) ==
    /\ pc[n] = "await"
    /\ Ready(xfer[n])
    /\ IF InRMW(Other(n))
       THEN /\ cr' = write_disable_mod(cr, n)
            /\ pc' = [pc EXCEPT ![n] = "idle"]
            /\ wr' = [wr EXCEPT ![n] = NoCall]
            /\ xfer' = [xfer EXCEPT ![n] = NoXfer]
            /\ last' = Call("write_ret", n)
            /\ UNCHANGED tmp
       ELSE /\ tmp' = [tmp EXCEPT ![n] = cr]
            /\ pc' = [pc EXCEPT ![n] = "dis_mod"]
            /\ UNCHANGED <<cr, wr, xfer, last>>
    /\ UNCHANGED <<live, dac, refcount, clock, dhr, dor>>

\* cr().modify writes EN and DMAEN back; write() returns
write_disable(n) ==
    /\ pc[n] = "dis_mod"
    /\ cr' = write_disable_mod(tmp[n], n)
    /\ pc' = [pc EXCEPT ![n] = "idle"]
    /\ tmp' = [tmp EXCEPT ![n] = CrReset]
    /\ wr' = [wr EXCEPT ![n] = NoCall]
    /\ xfer' = [xfer EXCEPT ![n] = NoXfer]
    /\ last' = Call("write_ret", n)
    /\ UNCHANGED <<live, dac, refcount, clock, dhr, dor>>

\* the caller drops the suspended future: the transfer is stopped, and the
\* rest of write() never runs
cancel(n) ==
    /\ pc[n] = "await"
    /\ pc' = [pc EXCEPT ![n] = "idle"]
    /\ wr' = [wr EXCEPT ![n] = NoCall]
    /\ xfer' = [xfer EXCEPT ![n] = NoXfer]
    /\ last' = Call("cancel", n)
    /\ UNCHANGED <<live, dac, refcount, clock, cr, dhr, dor, tmp>>

----------------------------------------------------------------------------

\* construction, destruction and ownership
Lifecycle ==
    \/ \E n \in Chan : DacChannel_new(n)
    \/ Dac_new
    \/ Dac_split
    \/ \E n \in Chan : drop(n)
    \/ Dac_drop

\* the control register calls
Config ==
    \/ \E n \in Chan, on \in BOOLEAN : set_enable(n, on)
    \/ \E n \in Chan : enable(n)
    \/ \E n \in Chan : disable(n)
    \/ \E n \in Chan, source \in TriggerSel : set_trigger(n, source)
    \/ \E n \in Chan, on \in BOOLEAN : set_triggering(n, on)

\* the data path calls and the hardware trigger
Data ==
    \/ \E n \in Chan, value \in Value : set(n, value)
    \/ \E n \in Chan : trigger(n)
    \/ \E values \in DualValue : Dac_set(values)
    \/ \E n \in Chan : hw_trigger(n)

\* the streaming write and the DMA engine
Stream ==
    \/ \E n \in Chan, data \in ValueArray, circular \in BOOLEAN : write_start(n, data, circular)
    \/ \E n \in Chan : write_enable(n)
    \/ \E n \in Chan : dma_step(n)
    \/ \E n \in Chan : write_resume(n)
    \/ \E n \in Chan : write_disable(n)
    \/ \E n \in Chan : cancel(n)

\* channels without a DMA binding: every call but write()
Next == Lifecycle \/ Config \/ Data

Spec == Init /\ [][Next]_vars

\* the control register calls made while channels stream: the enable bit
\* and the trigger source
DmaConfig ==
    \/ \E n \in Chan, on \in BOOLEAN : set_enable(n, on)
    \/ \E n \in Chan : enable(n)
    \/ \E n \in Chan : disable(n)
    \/ \E n \in Chan, source \in TriggerSel : set_trigger(n, source)

\* channels with a DMA binding, streaming while the control register is
\* reconfigured from other contexts
DmaNext == Lifecycle \/ DmaConfig \/ Stream

DmaSpec == Init /\ [][DmaNext]_vars

\* the DMA engine keeps moving data, and the executor keeps running a task
\* that is not suspended
Fairness ==
    \A n \in Chan :
        /\ WF_vars(write_enable(n))
        /\ WF_vars(dma_step(n))
        /\ WF_vars(write_resume(n))
        /\ WF_vars(write_disable(n))

\* streaming with the enable bit switched from other contexts, under fairness
DmaLiveNext ==
    \/ Lifecycle
    \/ \E n \in Chan : enable(n)
    \/ \E n \in Chan : disable(n)
    \/ Stream

DmaLiveSpec == Init /\ [][DmaLiveNext]_vars /\ Fairness

\* no write() is between the read and the write-back of a cr().modify
NoRMW == \A n \in Chan : ~InRMW(n)

\* a one-element 8-bit buffer
OneSample == [fmt |-> "Bit8", buf |-> <<10>>]

\* sequential execution: one cooperative task makes every call, so a
\* read-modify-write of write() is never interleaved with another call, and
\* calls on one channel run while the other channel's write() is suspended
SeqNext ==
    \/ NoRMW /\ Lifecycle
    \/ NoRMW /\ Config
    \/ NoRMW /\ \E n \in Chan, value \in Value : set(n, value)
    \/ NoRMW /\ \E n \in Chan, circular \in BOOLEAN : write_start(n, OneSample, circular)
    \/ \E n \in Chan : write_enable(n)
    \/ NoRMW /\ \E n \in Chan : dma_step(n)
    \/ NoRMW /\ \E n \in Chan : write_resume(n)
    \/ \E n \in Chan : write_disable(n)
    \/ NoRMW /\ \E n \in Chan : cancel(n)

SeqSpec == Init /\ [][SeqNext]_vars

\* 16-bit containers that do not fit the 12 data bits
Wide == {4096, 4097, 4256, 8191, 65535}

\* the Value::Bit12Left / Value::Bit12Right arguments out of range
WideValue == [fmt : {"Bit12Left", "Bit12Right"}, v : Wide]

\* immediate and trigger-gated writes of in-range and out-of-range values
CodecNext ==
    \/ Lifecycle
    \/ \E n \in Chan, on \in BOOLEAN : set_triggering(n, on)
    \/ \E n \in Chan, value \in Value \cup WideValue : set(n, value)

CodecSpec == Init /\ [][CodecNext]_vars

----------------------------------------------------------------------------
(* Properties *)

Returned(n) == last = Call("write_ret", n)

\* the fields of the control register that belong to channel n
ChanFields(reg, n) ==
    <<reg.en[IDX(n)], reg.ten[IDX(n)], reg.tsel[IDX(n)], reg.dmaen[IDX(n)]>>

\* a step of one of the calls set_trigger, set_triggering, trigger, set
QuietStep ==
    \E m \in Chan :
        \/ \E source \in TriggerSel : set_trigger(m, source)
        \/ \E on \in BOOLEAN : set_triggering(m, on)
        \/ \E value \in Value : set(m, value)
        \/ trigger(m)

\* C1: set_trigger(source) leaves the channel's enable bit cleared, whatever
\* the state before, and a cleared enable bit stays cleared through every
\* set_trigger, set_triggering, trigger and set call (read changes nothing).
C1_SetTriggerDisables ==
    [][\A n \in Chan :
          /\ (\E source \in TriggerSel : set_trigger(n, source)) => ~cr'.en[IDX(n)]
          /\ (~cr.en[IDX(n)] /\ QuietStep) => ~cr'.en[IDX(n)]]_vars

\* a channel that set_trigger has moved to the software source and disabled,
\* after a later set call
C1_Witness ==
    \E n \in Chan :
        /\ last = Call("set", n)
        /\ cr.tsel[IDX(n)] = "SOFTWARE"
        /\ ~cr.en[IDX(n)]

\* C2: the reference count equals the number of live channels: 2 after
\* Dac::new, 1 after DacChannel::new or after one of two channels is dropped,
\* and the peripheral is disabled exactly when no channel is left.
C2_RefcountIsLiveChannels ==
    /\ refcount = Cardinality(live)
    /\ clock <=> live # {}
    /\ last.op = "Dac_new" => refcount = 2
    /\ last.op = "new" => refcount = 1

\* split, then one channel dropped: the peripheral is still enabled
C2_Witness ==
    \E n \in Chan :
        /\ last = Call("drop", n)
        /\ live = {Other(n)}
        /\ refcount = 1
        /\ clock

\* C6: while the peripheral is enabled, the enable bit of a channel that has
\* been dropped (or was never constructed) is 0.
C6_EnableClearedOnDrop ==
    \A n \in Chan : (clock /\ n \notin live) => ~cr.en[IDX(n)]

Fresh(n) == cr.en[IDX(n)] /\ ~cr.ten[IDX(n)] /\ ~cr.dmaen[IDX(n)]

\* C7: right after DacChannel::new the channel, and right after Dac::new both
\* channels, are enabled with triggering off and the DMA-request bit clear.
C7_FreshChannelEnabled ==
    /\ last.op = "new" => Fresh(last.ch)
    /\ last.op = "Dac_new" => \A n \in Chan : Fresh(n)

\* a channel constructed again after an earlier one was dropped
C7_Witness == last.op = "new" /\ live = {last.ch} /\ Fresh(last.ch) /\ dhr = DataReset

\* C8 as stated: without triggering set makes read reflect the value; with
\* triggering the output changes only in a trigger() call, and trigger()
\* makes read reflect the pending value.
C8_Original ==
    [][\A n \in Chan :
          /\ \A value \in Value :
                set(n, value) =>
                    IF cr.ten[IDX(n)] THEN read(n)' = read(n)
                    ELSE read(n)' = set_dhr(value.fmt, value.v)
          /\ (cr.ten[IDX(n)] /\ n \in live /\ n \in live' /\ read(n)' # read(n))
                => trigger(n)
          /\ (trigger(n) /\ cr.ten[IDX(n)]) => read(n)' = dhr[IDX(n)]]_vars

\* C8 amended: without triggering set makes read reflect the value; with
\* triggering set leaves read unchanged and holds the value; with triggering
\* on and the software source selected the output changes only in a trigger()
\* call, and trigger() makes read reflect the pending value.
C8_TriggerGating ==
    [][\A n \in Chan :
          /\ \A value \in Value :
                set(n, value) =>
                    /\ dhr'[IDX(n)] = set_dhr(value.fmt, value.v)
                    /\ IF cr.ten[IDX(n)] THEN read(n)' = read(n)
                       ELSE read(n)' = set_dhr(value.fmt, value.v)
          /\ (cr.ten[IDX(n)] /\ cr.tsel[IDX(n)] = "SOFTWARE" /\ n \in live
                /\ n \in live' /\ read(n)' # read(n)) => trigger(n)
          /\ (trigger(n) /\ cr.ten[IDX(n)] /\ cr.tsel[IDX(n)] = "SOFTWARE")
                => read(n)' = dhr[IDX(n)]]_vars

\* a software-triggered channel whose pending value trigger() has latched
C8_Witness ==
    \E n \in Chan :
        /\ last = Call("trigger", n)
        /\ cr.ten[IDX(n)]
        /\ cr.tsel[IDX(n)] = "SOFTWARE"
        /\ read(n) = 160
        /\ dhr[IDX(n)] = 160

\* C9: Dac::set loads both holding registers with the pair in one step, and
\* both outputs of channels without triggering change in that same step.
C9_DualSetAtomic ==
    [][\A values \in DualValue :
          Dac_set(values) =>
              /\ dhr'[0] = set_dhr(values.fmt, values.v1)
              /\ dhr'[1] = set_dhr(values.fmt, values.v2)
              /\ \A i \in Idx : ~cr.ten[i] => dor'[i] = dhr'[i]]_vars

\* a dual write of two different values, both visible
C9_Witness ==
    /\ last.op = "Dac_set"
    /\ dhr[0] # dhr[1]
    /\ dor = dhr

\* the step in which channel n's write() returns
Returns(n) == pc[n] # "idle" /\ pc'[n] = "idle" /\ last' = Call("write_ret", n)

\* the step in which channel n's tx_f.await completes
Completes(n) == pc[n] = "await" /\ (pc'[n] = "dis_mod" \/ Returns(n))

C4_CancelThenDisable ==
    [][\A n \in Chan :
          (last = Call("cancel", n) /\ disable(n))
              => ~cr'.en[IDX(n)] /\ ~cr'.dmaen[IDX(n)]]_vars

\* a step of a call on channel n that writes the control register
WritesCr(n) ==
    \/ \E on \in BOOLEAN : set_enable(n, on)
    \/ enable(n)
    \/ disable(n)
    \/ \E source \in TriggerSel : set_trigger(n, source)
    \/ \E on \in BOOLEAN : set_triggering(n, on)
    \/ \E data \in ValueArray, circular \in BOOLEAN : write_start(n, data, circular)
    \/ write_enable(n)
    \/ write_resume(n)
    \/ write_disable(n)

\* C5: no read-modify-write of CR by a call on one channel loses an update of
\* the other channel's fields: the call leaves them as they are when it
\* writes.
C5_NoLostUpdate ==
    [][\A n \in Chan :
          WritesCr(n) => ChanFields(cr', Other(n)) = ChanFields(cr, Other(n))]_vars

\* the position after the element at position k of transfer x has moved
NextPos(x, k) == IF Len(x.buf) = 0 THEN 0 ELSE (k + 1) % Len(x.buf)

C11_TruncationLaw ==
    /\ [][\A n \in Chan, value \in WideValue :
             set(n, value) =>
                 /\ value.v > 4095
                 /\ dhr'[IDX(n)] = value.v % 4096
                 /\ ~cr.ten[IDX(n)] => read(n)' = value.v % 4096]_vars
    /\ [](\A n \in Chan, value \in WideValue : CanUse(n) => ENABLED set(n, value))

\* 8191 or 65535 written and read back as 4095
C11_Witness ==
    \E n \in Chan :
        /\ last = Call("set", n)
        /\ dhr[IDX(n)] = 4095
        /\ read(n) = 4095

\* C12: a trigger() call changes read() of its channel only when triggering
\* is enabled and the trigger source is the software trigger; in every other
\* configuration read() is the same after the call.
C12_TriggerOnlySoftware ==
    [][\A n \in Chan :
          trigger(n) =>
              /\ read(n)' # read(n) => (cr.ten[IDX(n)] /\ cr.tsel[IDX(n)] = "SOFTWARE")
              /\ ~(cr.ten[IDX(n)] /\ cr.tsel[IDX(n)] = "SOFTWARE") => read(n)' = read(n)]_vars

\* trigger() called with a timer source selected: the pending value stays
\* pending
C12_Witness ==
    \E n \in Chan :
        /\ last = Call("trigger", n)
        /\ cr.ten[IDX(n)]
        /\ cr.tsel[IDX(n)] = "TIM6_TRGO"
        /\ dhr[IDX(n)] = 160
        /\ read(n) = 0

\* C18: trigger() on one channel never latches the other channel's pending
\* value: the other channel's output, holding register and configuration are
\* the same after the call.
C18_TriggerOwnIndexOnly ==
    [][\A n \in Chan :
          trigger(n) =>
              /\ read(Other(n))' = read(Other(n))
              /\ dhr'[IDX(Other(n))] = dhr[IDX(Other(n))]
              /\ ChanFields(cr', Other(n)) = ChanFields(cr, Other(n))]_vars

\* trigger() returned while the other channel, software-triggered, still has
\* its value pending
C18_Witness ==
    \E n \in Chan :
        /\ last = Call("trigger", n)
        /\ cr.ten[IDX(Other(n))]
        /\ cr.tsel[IDX(Other(n))] = "SOFTWARE"
        /\ dhr[IDX(Other(n))] = 160
        /\ read(Other(n)) = 0

\* C14: the transfer write() starts has the caller's buffer as source, the
\* holding register of the buffer's format and of the channel's index as
\* destination, and the options circular = the argument, half_transfer_ir =
\* false, complete_transfer_ir = not circular.
C14_TransferSetup ==
    \A n \in Chan :
        pc[n] = "await" =>
            /\ xfer[n].buf = wr[n].data.buf
            /\ xfer[n].dst.idx = n - 1
            /\ wr[n].data.fmt = "Bit8" => xfer[n].dst.reg = "DHR8R"
            /\ wr[n].data.fmt = "Bit12Left" => xfer[n].dst.reg = "DHR12L"
            /\ wr[n].data.fmt = "Bit12Right" => xfer[n].dst.reg = "DHR12R"
            /\ xfer[n].circular = wr[n].circular
            /\ xfer[n].half_transfer_ir = FALSE
            /\ xfer[n].complete_transfer_ir = ~wr[n].circular

\* channel 2 streaming a left-aligned buffer in circular mode
C14_Witness ==
    /\ pc[2] = "await"
    /\ wr[2].data.fmt = "Bit12Left"
    /\ wr[2].circular
    /\ xfer[2].dst = [reg |-> "DHR12L", idx |-> 1]
    /\ xfer[2].circular
    /\ ~xfer[2].complete_transfer_ir
    /\ dhr[1] = 160

\* C13: from the moment the transfer of a streaming write is started until it
\* completes or is cancelled, the channel's EN and DMAEN bits are both 1 (the
\* one update that sets them precedes the start of the transfer).
C13_BitsSetWhileStreaming ==
    \A n \in Chan :
        pc[n] = "await" => (cr.en[IDX(n)] /\ cr.dmaen[IDX(n)])

\* C15: set_triggering(on) sets the channel's trigger-enable bit to on and
\* leaves its enable bit, trigger source and DMA-request bit as they were.
C15_SetTriggeringFrame ==
    [][\A n \in Chan, on \in BOOLEAN :
          set_triggering(n, on) =>
              /\ cr'.ten[n - 1] = on
              /\ cr'.en[n - 1] = cr.en[n - 1]
              /\ cr'.tsel[n - 1] = cr.tsel[n - 1]
              /\ cr'.dmaen[n - 1] = cr.dmaen[n - 1]]_vars

\* triggering switched on for a channel that is enabled, software-triggered
\* and has its DMA-request bit set
C15_Witness ==
    \E n \in Chan :
        /\ last = Call("set_triggering", n)
        /\ ChanFields(cr, n) = <<TRUE, TRUE, "SOFTWARE", TRUE>>

\* C16: enable() is set_enable(true) and disable() is set_enable(false): each
\* sets the enable bit and nothing else; and a call that repeats the call
\* just made leaves the control register as the first one left it.
C16_EnableIdempotent ==
    [][\A n \in Chan :
          /\ \A on \in BOOLEAN :
                set_enable(n, on) =>
                    /\ cr' = [cr EXCEPT !.en[n - 1] = on]
                    /\ (last = Call("set_enable", n) /\ cr.en[n - 1] = on) => cr' = cr
          /\ enable(n) =>
                /\ cr' = [cr EXCEPT !.en[n - 1] = TRUE]
                /\ last = Call("enable", n) => cr' = cr
          /\ disable(n) =>
                /\ cr' = [cr EXCEPT !.en[n - 1] = FALSE]
                /\ last = Call("disable", n) => cr' = cr]_vars

\* enable() returned on a channel whose other fields are all set
C16_Witness ==
    \E n \in Chan :
        /\ last = Call("enable", n)
        /\ ChanFields(cr, n) = <<TRUE, TRUE, "SOFTWARE", TRUE>>

\* a step of a call on channel n, or of its transfer
StepOf(n) ==
    \/ WritesCr(n)
    \/ \E value \in Value : set(n, value)
    \/ dma_step(n)

\* C17: in sequential execution every step of set_enable, enable, disable,
\* set_trigger, set_triggering, set and of a streaming write on one channel
\* leaves the other channel's enable bit, trigger-enable bit, trigger source,
\* DMA-request bit and holding register as they were.
C17_ChannelIsolation ==
    [][\A n \in Chan :
          StepOf(n) =>
              /\ ChanFields(cr', Other(n)) = ChanFields(cr, Other(n))
              /\ dhr'[IDX(Other(n))] = dhr[IDX(Other(n))]]_vars

\* a streaming write completed on one channel while the other channel keeps
\* its non-reset configuration and held value
C17_Witness ==
    \E n \in Chan :
        /\ Returned(n)
        /\ ChanFields(cr, Other(n)) = <<TRUE, TRUE, "SOFTWARE", TRUE>>
        /\ dhr[IDX(Other(n))] = 160
        /\ dhr[IDX(n)] = 160

====
